---- MODULE Spec2Model ----
(***************************************************************************)
(* statiko: the page/post rendering pipeline of src/main.go (the second,   *)
(* error-returning revision of the file, lines 334-757).                   *)
(*                                                                         *)
(* Text (literals, titles, HTML) is a TLA+ string.  A path is a sequence   *)
(* of atoms: "/" , "." and name fragments that hold neither, so that       *)
(* "pages-md/blog/x.md" is <<"pages-md","/","blog","/","x",".","md">>.     *)
(* A Markdown source is an index into MdSources, the table of the trees    *)
(* the Markdown parser builds for it.                                      *)
(***************************************************************************)
EXTENDS Integers, Sequences, FiniteSets, TLC

VARIABLES
    conf,      \* the site configuration: SourcePath, DestinationPath
    tree,      \* the source tree: the Markdown files below the source root
    mdfiles,   \* the Markdown source each of them holds
    sidecars,  \* the state of each file's .meta.json sidecar
    pagesmd,   \* renderPages: the files collected
    pc,        \* the position of the run
    idx,       \* the number of files the loop has finished
    fname, outpath, pagemd, doc, p,   \* the locals of the loop body
    posts,     \* the post collection
    data,      \* the templateData of renderPages
    htmlData,  \* the page made last
    written,   \* the pages written, in order
    postsBody, \* renderPostsPage: bodystr
    postsErr,  \* the result of renderPostsPage
    err,       \* the result of renderPages
    out        \* the progress lines of note printed so far

vars == <<conf, tree, mdfiles, sidecars, pagesmd, pc, idx, fname, outpath, pagemd, doc, p,
          posts, data, htmlData, written, postsBody, postsErr, err, out>>

\* Largest number of Markdown files in the source tree.
MaxFiles == 2

(***************************************************************************)
(* Sequences                                                               *)
(***************************************************************************)
Last(s) == s[Len(s)]

HasPrefix(s, pre) == Len(pre) <= Len(s) /\ SubSeq(s, 1, Len(pre)) = pre

HasSuffix(s, suf) ==
    Len(suf) <= Len(s) /\ SubSeq(s, Len(s) - Len(suf) + 1, Len(s)) = suf

TrimPrefix(s, pre) ==
    IF HasPrefix(s, pre) THEN SubSeq(s, Len(pre) + 1, Len(s)) ELSE s

TrimSuffix(s, suf) ==
    IF HasSuffix(s, suf) THEN SubSeq(s, 1, Len(s) - Len(suf)) ELSE s

\* Index of the last atom of s equal to a, 0 when there is none.
LastIndex(s, a) ==
    LET hits == {i \in 1..Len(s) : s[i] = a}
    IN  IF hits = {} THEN 0 ELSE CHOOSE i \in hits : \A j \in hits : j <= i

(***************************************************************************)
(* path/filepath                                                           *)
(***************************************************************************)
\* filepath.Ext: the suffix beginning at the final dot of the final element.
Ext(path) ==
    LET d == LastIndex(path, ".")
    IN  IF d > LastIndex(path, "/") THEN SubSeq(path, d, Len(path)) ELSE <<>>

\* The elements of a path between its separators (empty elements included).
RECURSIVE Elements(_)
Elements(path) ==
    LET seps == {i \in 1..Len(path) : path[i] = "/"}
    IN  IF seps = {} THEN <<path>>
        ELSE LET i == CHOOSE k \in seps : \A j \in seps : k <= j
             IN  <<SubSeq(path, 1, i - 1)>> \o Elements(SubSeq(path, i + 1, Len(path)))

RECURSIVE JoinElements(_)
JoinElements(els) ==
    IF els = <<>> THEN <<>>
    ELSE IF Len(els) = 1 THEN els[1]
    ELSE els[1] \o <<"/">> \o JoinElements(Tail(els))

\* filepath.Clean for paths without ".." elements: drops empty and "."
\* elements and the trailing separator, keeps a leading separator, and
\* returns "." for the empty result.
Clean(path) ==
    LET rooted == path # <<>> /\ path[1] = "/"
        kept   == SelectSeq(Elements(path), LAMBDA e : e # <<>> /\ e # <<".">>)
        body   == JoinElements(kept)
    IN  IF rooted THEN <<"/">> \o body
        ELSE IF body = <<>> THEN <<".">> ELSE body

\* filepath.Join of two elements: empty elements are ignored, the rest are
\* joined by a separator and cleaned.
Join(a, b) ==
    IF a = <<>> /\ b = <<>> THEN <<>>
    ELSE IF a = <<>> THEN Clean(b)
    ELSE IF b = <<>> THEN Clean(a)
    ELSE Clean(a \o <<"/">> \o b)

\* filepath.Split: the directory part, up to and including the final separator.
SplitDir(path) == SubSeq(path, 1, LastIndex(path, "/"))

\* Number of elements of a cleaned relative path ("." has none).
Depth(path) == IF path = <<".">> THEN 0 ELSE Len(Elements(path))

RECURSIVE DotDots(_)
DotDots(n) ==
    IF n = 0 THEN <<".">>
    ELSE IF n = 1 THEN <<".", ".">>
    ELSE <<".", ".", "/">> \o DotDots(n - 1)

\* filepath.Rel(basepath, targpath) when the cleaned target is the cleaned
\* base or one of its ancestors (the only case renderPages produces when the
\* output path lies under the destination root); "?" stands for any other
\* result.
Rel(basepath, targpath) ==
    LET base == Clean(basepath)
        targ == Clean(targpath)
    IN  IF base = targ THEN <<".">>
        ELSE IF targ = <<".">> THEN DotDots(Depth(base))
        ELSE IF HasPrefix(base, targ \o <<"/">>)
             THEN DotDots(Depth(base) - Depth(targ))
        ELSE <<"?">>

(***************************************************************************)
(* Document trees (gomarkdown ast)                                         *)
(***************************************************************************)
\* Leaf variants hold a literal and no children.
Text(lit) == [type |-> "Text", level |-> 0, literal |-> lit, children |-> <<>>]

HorizontalRule == [type |-> "HorizontalRule", level |-> 0, literal |-> "", children |-> <<>>]

\* Container variants hold an ordered child sequence and no literal.
Container(type, level, children) ==
    [type |-> type, level |-> level, literal |-> "", children |-> children]

Heading(level, children) == Container("Heading", level, children)

Paragraph(children) == Container("Paragraph", 0, children)

Document(children) == Container("Document", 0, children)

\* node.AsLeaf() # nil
IsLeaf(node) == node.type \in {"Text", "HorizontalRule"}

\* ast.AppendChild
AppendChild(parent, child) ==
    [parent EXCEPT !.children = Append(parent.children, child)]

\* The trees the parser builds for the Markdown sources of the model.
MdSources ==
    << \* 1: "# Title\n\nSummary text.\n"
       Document(<<Heading(1, <<Text("Title")>>), Paragraph(<<Text("Summary text.")>>)>>),
       \* 2: a paragraph before the only level-1 heading
       Document(<<Paragraph(<<Text("Intro")>>), Heading(1, <<Text("Late")>>)>>),
       \* 3: a level-1 heading without literal text (an image with no alt
       \*    text), then a second level-1 heading
       Document(<<Heading(1, <<Container("Image", 0, <<>>)>>),
                  Heading(1, <<Text("Second")>>),
                  Paragraph(<<Text("Body")>>)>>),
       \* 4: two level-1 headings, a paragraph with nested emphasis
       Document(<<Heading(1, <<Text("First")>>),
                  Heading(1, <<Text("Other")>>),
                  Paragraph(<<Text("a "), Container("Emph", 0, <<Text("b")>>), Text(" c")>>),
                  Paragraph(<<Text("tail")>>)>>),
       \* 5: no level-1 heading, the first paragraph nested in a list item
       Document(<<Heading(2, <<Text("Sub")>>),
                  Container("List", 0, <<Container("ListItem", 0,
                      <<Paragraph(<<Text("item")>>)>>)>>),
                  Paragraph(<<Text("after")>>)>>),
       \* 6: a heading and no paragraph
       Document(<<Heading(1, <<Text("Only")>>)>>) >>

Sources == 1..Len(MdSources)

\* parseMD: a new parser for each call, the tree depends on the bytes alone.
parseMD(md) == MdSources[md]

(***************************************************************************)
(* Document Inspector                                                      *)
(***************************************************************************)
\* childLiterals, a variant that does not descend into container children.
RECURSIVE childLiteralsShallow(_)
childLiteralsShallow(node) ==
    LET RECURSIVE from(_)
        from(i) ==
            IF i > Len(node.children) THEN ""
            ELSE (IF IsLeaf(node.children[i]) THEN node.children[i].literal ELSE "")
                 \o from(i + 1)
    IN  from(1)

RECURSIVE childLiterals(_)
childLiterals(node) ==
    LET RECURSIVE from(_)
        from(i) ==
            IF i > Len(node.children) THEN ""
            ELSE (IF IsLeaf(node.children[i]) THEN node.children[i].literal
                  ELSE childLiterals(node.children[i]))
                 \o from(i + 1)
    IN  from(1)

\* The zero value of post.
\* A pointer is the empty sequence (nil) or a sequence of one value.
nil == <<>>

NoPost == [title |-> "", summary |-> "", url |-> <<>>, metadata |-> nil]

\* The visitor of parsePost: st is [p, status]; the entering flag is ignored.
visitor(node, st) ==
    CASE node.type = "Heading" ->
            IF node.level = 1 /\ st.p.title = ""
            THEN [p |-> [st.p EXCEPT !.title = childLiterals(node)], status |-> "GoToNext"]
            ELSE [st EXCEPT !.status = "GoToNext"]
      [] node.type = "Paragraph" ->
            [p |-> [st.p EXCEPT !.summary = childLiterals(node)], status |-> "Terminate"]
      [] OTHER -> [st EXCEPT !.status = "GoToNext"]

\* ast.Walk: visit on entering, walk the children in order, visit a
\* container again on leaving; Terminate stops the walk (after closing the
\* container it was returned for).
RECURSIVE Walk(_, _)
Walk(n, st) ==
    LET entered == visitor(n, st)
        RECURSIVE kids(_, _)
        kids(i, s) ==
            IF i > Len(n.children) \/ s.status = "Terminate" THEN s
            ELSE kids(i + 1, Walk(n.children[i], s))
    IN  IF entered.status = "Terminate"
        THEN IF IsLeaf(n) THEN entered
             ELSE [visitor(n, entered) EXCEPT !.status = "Terminate"]
        ELSE LET after == IF IsLeaf(n) THEN entered ELSE kids(1, entered)
             IN  IF after.status = "Terminate" \/ IsLeaf(n) THEN after
                 ELSE visitor(n, after)

parsePost(mdsource) ==
    Walk(parseMD(mdsource), [p |-> NoPost, status |-> "GoToNext"]).p

(***************************************************************************)
(* time.Time.Format(time.RFC1123): "Mon, 02 Jan 2006 15:04:05 MST"         *)
(***************************************************************************)
shortDayNames == <<"Sun", "Mon", "Tue", "Wed", "Thu", "Fri", "Sat">>

shortMonthNames ==
    <<"Jan", "Feb", "Mar", "Apr", "May", "Jun", "Jul", "Aug", "Sep", "Oct", "Nov", "Dec">>

\* A number zero-padded to width digits.
RECURSIVE Pad(_, _)
Pad(n, width) ==
    IF width <= 1 /\ n < 10 THEN ToString(n)
    ELSE Pad(n \div 10, width - 1) \o ToString(n % 10)

\* The DatePosted values of the sidecar files of the model: the zero time
\* (a sidecar without a "posted" field), a UTC time, and a time in a zone
\* without an abbreviation, which the MST verb prints as its offset.
DateOf ==
    [ zero   |-> [wd |-> 1, day |-> 1, month |-> 1, year |-> 1, hour |-> 0, min |-> 0,
                  sec |-> 0, zone |-> "UTC"],
      utc    |-> [wd |-> 0, day |-> 1, month |-> 1, year |-> 2023, hour |-> 10, min |-> 30,
                  sec |-> 5, zone |-> "UTC"],
      offset |-> [wd |-> 4, day |-> 14, month |-> 12, year |-> 2023, hour |-> 23, min |-> 9,
                  sec |-> 0, zone |-> "+0200"] ]

FormatRFC1123(t) ==
    shortDayNames[t.wd + 1] \o ", " \o Pad(t.day, 2) \o " " \o shortMonthNames[t.month]
    \o " " \o Pad(t.year, 4) \o " " \o Pad(t.hour, 2) \o ":" \o Pad(t.min, 2) \o ":"
    \o Pad(t.sec, 2) \o " " \o t.zone

(***************************************************************************)
(* Document Mutator                                                        *)
(***************************************************************************)
\* addDate, a variant that leaves the tree as it was.
addDateDropped(d, post) == d

\* addDate, a variant that appends the paragraph before the rule.
addDateSwapped(d, post) ==
    AppendChild(
        AppendChild(d, AppendChild(Paragraph(<<>>),
                                   Text("Posted: " \o FormatRFC1123(post.metadata[1].DatePosted)))),
        HorizontalRule)

\* addDate for a post whose metadata is not nil (the caller takes the nil
\* dereference of p.metadata.DatePosted as a step of its own).
addDate(d, post) ==
    LET dateStr       == FormatRFC1123(post.metadata[1].DatePosted)
        footer        == "Posted: " \o dateStr
        hr            == HorizontalRule
        dateParagraph == AppendChild(Paragraph(<<>>), Text(footer))
    IN  AppendChild(AppendChild(d, hr), dateParagraph)

(***************************************************************************)
(* HTML Renderer and page template                                         *)
(***************************************************************************)
\* markdown.Render with the default renderer options.
RECURSIVE Render(_)
Render(node) ==
    LET RECURSIVE inner(_)
        inner(i) ==
            IF i > Len(node.children) THEN ""
            ELSE Render(node.children[i]) \o inner(i + 1)
    IN  CASE node.type = "Text"           -> node.literal
          [] node.type = "HorizontalRule" -> "<hr>\n"
          [] node.type = "Document"       -> inner(1)
          [] node.type = "Heading"        ->
                "<h" \o ToString(node.level) \o ">" \o inner(1)
                \o "</h" \o ToString(node.level) \o ">\n"
          [] node.type = "Paragraph"      -> "<p>" \o inner(1) \o "</p>\n"
          [] node.type = "Emph"           -> "<em>" \o inner(1) \o "</em>"
          [] node.type = "Image"          -> "<img alt=\"" \o inner(1) \o "\" />"
          [] node.type = "List"           -> "<ul>\n" \o inner(1) \o "</ul>\n"
          [] OTHER                        -> "<li>" \o inner(1) \o "</li>\n"

\* makeHTML on success: the template executed with the three fields of data.
makeHTML(d) == [SiteName |-> d.SiteName, Body |-> d.Body, RelRoot |-> d.RelRoot]

\* parseMD and markdown.Render applied to the synthesized listing: the
\* ordered-list markup of the Markdown text, which is kept as it is.
RenderListing(bodystr) == "<ol>\n" \o bodystr \o "</ol>\n"

(***************************************************************************)
(* Configuration and source tree                                           *)
(***************************************************************************)
\* SourcePath and DestinationPath as the configuration file may give them:
\* the defaults, with trailing separators, and with a leading "./".
Configs ==
    { [SourcePath |-> <<"pages-md">>,           DestinationPath |-> <<"html">>],
      [SourcePath |-> <<"pages-md", "/">>,      DestinationPath |-> <<"html", "/">>],
      [SourcePath |-> <<"pages-md">>,           DestinationPath |-> <<".", "/", "html">>],
      [SourcePath |-> <<".", "/", "pages-md">>, DestinationPath |-> <<"html">>] }

\* The Markdown files a source tree may hold, relative to the source root,
\* in the lexical order filepath.Walk visits them.
RelFiles ==
    << <<"20230303-note", ".", "md">>,
       <<"about", ".", "md">>,
       <<"blog", "/", "20230101-hello", ".", "md">> >>

\* The name fragments the default PostPattern [0-9]{8}-.* finds a match in.
DatedNames == {"20230303-note", "20230101-hello"}

\* postre.MatchString(fname): the pattern is not anchored and holds neither
\* a separator nor a dot before its .*, so it matches iff some fragment does.
MatchString(path) == \E i \in 1..Len(path) : path[i] \in DatedNames

\* The subsequences of RelFiles of at most MaxFiles files.
Trees ==
    LET pick(S) == SelectSeq(RelFiles, LAMBDA r : r \in S)
    IN  {pick(S) : S \in {T \in SUBSET {RelFiles[i] : i \in 1..Len(RelFiles)} :
                              Cardinality(T) <= MaxFiles}}

\* What a file's sidecar may be: absent, not decodable, or a record with one
\* of the dates.
Sidecars == {"absent", "malformed"} \cup DOMAIN DateOf

\* collectMarkdownFiles on success: filepath.Walk hands the walk function
\* filepath.Join(dir, name) for every entry below the root.
collectMarkdownFiles(srcpath, t) == [i \in 1..Len(t) |-> Join(srcpath, t[i])]

\* The output path of a source file (renderPages, trim and join).
outpathOf(name, srcpath, destpath) ==
    LET trimmed == TrimPrefix(name, srcpath)
        noext   == TrimSuffix(trimmed, Ext(trimmed))
        html    == noext \o <<".", "html">>
    IN  Join(destpath, html)

\* The site-relative URL of a post (renderPages, the two TrimPrefix calls).
postURLOf(path, destpath) == TrimPrefix(TrimPrefix(path, destpath), <<"/">>)

\* renderPostsPage, a variant that makes the listing for any collection.
HasPostsAlways(ps) == TRUE

\* renderPostsPage: if len(posts) > 0
HasPosts(ps) == Len(ps) > 0

\* The string a path stands for: its atoms, concatenated.
RECURSIVE Str(_)
Str(path) == IF path = <<>> THEN "" ELSE Head(path) \o Str(Tail(path))

\* renderPostsPage, the listing with one-based numbers.
bodystrOneBased(ps) ==
    LET RECURSIVE upto(_)
        upto(n) ==
            IF n = 0 THEN ""
            ELSE upto(n - 1) \o ToString(n) \o ". [" \o ps[n].title \o "]("
                 \o Str(ps[n].url) \o ")\n    - " \o ps[n].summary \o "\n"
    IN  upto(Len(ps))

\* renderPostsPage, the loop that builds bodystr: the index idx of range
\* starts at 0.
bodystrOf(ps) ==
    LET RECURSIVE upto(_)
        upto(n) ==
            IF n = 0 THEN ""
            ELSE upto(n - 1) \o ToString(n - 1) \o ". [" \o ps[n].title \o "]("
                 \o Str(ps[n].url) \o ")\n    - " \o ps[n].summary \o "\n"
    IN  upto(Len(ps))

(***************************************************************************)
(* The run: main, renderPages, renderPostsPage                             *)
(***************************************************************************)
NoData == [SiteName |-> "site", Body |-> "", RelRoot |-> <<>>]

Init ==
    /\ conf \in Configs
    /\ tree \in Trees
    /\ mdfiles \in [1..Len(tree) -> Sources]
    /\ sidecars \in [1..Len(tree) -> Sidecars]
    /\ \A i \in 1..Len(tree) : ~MatchString(tree[i]) => sidecars[i] = "absent"
    /\ pagesmd = <<>>
    /\ pc = "collect"
    /\ idx = 0
    /\ fname = <<>>
    /\ outpath = <<>>
    /\ pagemd = 0
    /\ doc = Document(<<>>)
    /\ p = NoPost
    /\ posts = <<>>
    /\ data = NoData
    /\ htmlData = NoData
    /\ written = <<>>
    /\ postsBody = ""
    /\ postsErr = "nil"
    /\ err = "nil"
    /\ out = <<>>

\* return fmt.Errorf(...) from renderPages: the run stops here, main dies.
Fail(e) ==
    /\ err' = e
    /\ pc' = "returned"

\* renderPages up to the loop: collectMarkdownFiles succeeds.
Collect ==
    /\ pc = "collect"
    /\ pagesmd' = collectMarkdownFiles(conf.SourcePath, tree)
    /\ pc' = "loop"
    /\ UNCHANGED <<conf, tree, mdfiles, sidecars, idx, fname, outpath, pagemd,
                   doc, p, posts, data, htmlData, written, postsBody,
                   postsErr, err, out>>

\* collectMarkdownFiles fails (the walk reports an error).
CollectFail ==
    /\ pc = "collect"
    /\ Fail("collecting markdown files")
    /\ UNCHANGED <<conf, tree, mdfiles, sidecars, pagesmd, idx, fname,
                   outpath, pagemd, doc, p, posts, data, htmlData, written,
                   postsBody, postsErr, out>>

\* The head of the loop for the next file: the output path is derived, the
\* file is read and parsed.
ReadFile ==
    /\ pc = "loop"
    /\ idx < Len(pagesmd)
    /\ pagemd' = mdfiles[idx + 1]
    /\ doc' = parseMD(mdfiles[idx + 1])
    /\ fname' = pagesmd[idx + 1]
    /\ outpath' = outpathOf(pagesmd[idx + 1], conf.SourcePath, conf.DestinationPath)
    /\ pc' = "classify"
    /\ UNCHANGED <<conf, tree, mdfiles, sidecars, pagesmd, idx, p, posts,
                   data, htmlData, written, postsBody, postsErr, err, out>>

\* os.ReadFile(fname) fails.
ReadFileFail ==
    /\ pc = "loop"
    /\ idx < Len(pagesmd)
    /\ fname' = pagesmd[idx + 1]
    /\ outpath' = outpathOf(pagesmd[idx + 1], conf.SourcePath, conf.DestinationPath)
    /\ Fail("reading file")
    /\ UNCHANGED <<conf, tree, mdfiles, sidecars, pagesmd, idx, pagemd, doc,
                   p, posts, data, htmlData, written, postsBody, postsErr,
                   out>>

\* if postre.MatchString(fname): the post is parsed from the bytes and
\* given its URL.
ClassifyPost ==
    /\ pc = "classify"
    /\ MatchString(fname)
    /\ p' = [parsePost(pagemd) EXCEPT !.url = postURLOf(outpath, conf.DestinationPath)]
    /\ pc' = "metadata"
    /\ UNCHANGED <<conf, tree, mdfiles, sidecars, pagesmd, idx, fname,
                   outpath, pagemd, doc, posts, data, htmlData, written,
                   postsBody, postsErr, err, out>>

\* The file is no post: the branch is skipped.
ClassifyPage ==
    /\ pc = "classify"
    /\ ~MatchString(fname)
    /\ pc' = "render"
    /\ UNCHANGED <<conf, tree, mdfiles, sidecars, pagesmd, idx, fname,
                   outpath, pagemd, doc, p, posts, data, htmlData, written,
                   postsBody, postsErr, err, out>>

\* GotMetadata, a variant that puts the post in front of the collection.
GotMetadataPrepend(m) ==
    /\ p' = [p EXCEPT !.metadata = m]
    /\ posts' = <<[p EXCEPT !.metadata = m]>> \o posts
    /\ pc' = "adddate"
    /\ UNCHANGED <<conf, tree, mdfiles, sidecars, pagesmd, idx, fname,
                   outpath, pagemd, doc, data, htmlData, written, postsBody,
                   postsErr, err, out>>

\* readPostMetadata returns m (nil when there is no sidecar file); the post
\* is appended to posts.
GotMetadata(m) ==
    /\ p' = [p EXCEPT !.metadata = m]
    /\ posts' = Append(posts, [p EXCEPT !.metadata = m])
    /\ pc' = "adddate"
    /\ UNCHANGED <<conf, tree, mdfiles, sidecars, pagesmd, idx, fname,
                   outpath, pagemd, doc, data, htmlData, written, postsBody,
                   postsErr, err, out>>

\* os.Stat reports that the sidecar file does not exist.
MetadataAbsent ==
    /\ pc = "metadata"
    /\ sidecars[idx + 1] = "absent"
    /\ GotMetadata(nil)

\* The sidecar file is decoded.
MetadataRead ==
    /\ pc = "metadata"
    /\ sidecars[idx + 1] \in DOMAIN DateOf
    /\ GotMetadata(<<[DatePosted |-> DateOf[sidecars[idx + 1]]]>>)

\* The sidecar file cannot be opened or decoded.
MetadataFail ==
    /\ pc = "metadata"
    /\ sidecars[idx + 1] # "absent"
    /\ Fail("reading post metadata")
    /\ UNCHANGED <<conf, tree, mdfiles, sidecars, pagesmd, idx, fname,
                   outpath, pagemd, doc, p, posts, data, htmlData, written,
                   postsBody, postsErr, out>>

\* addDate(doc, p) with metadata.
AddDate ==
    /\ pc = "adddate"
    /\ p.metadata # nil
    /\ doc' = addDate(doc, p)
    /\ pc' = "render"
    /\ UNCHANGED <<conf, tree, mdfiles, sidecars, pagesmd, idx, fname,
                   outpath, pagemd, p, posts, data, htmlData, written,
                   postsBody, postsErr, err, out>>

\* addDate(doc, p) without metadata: p.metadata.DatePosted dereferences nil
\* and the run panics.
AddDatePanic ==
    /\ pc = "adddate"
    /\ p.metadata = nil
    /\ pc' = "panic"
    /\ UNCHANGED <<conf, tree, mdfiles, sidecars, pagesmd, idx, fname,
                   outpath, pagemd, doc, p, posts, data, htmlData, written,
                   postsBody, postsErr, err, out>>

\* data.Body = markdown.Render(doc, renderer)
RenderBody ==
    /\ pc = "render"
    /\ data' = [data EXCEPT !.Body = Render(doc)]
    /\ pc' = "mkdir"
    /\ UNCHANGED <<conf, tree, mdfiles, sidecars, pagesmd, idx, fname,
                   outpath, pagemd, doc, p, posts, htmlData, written,
                   postsBody, postsErr, err, out>>

\* The parent directory is made when it is not the destination path, and
\* data.RelRoot is set.
MakeDir ==
    /\ pc = "mkdir"
    /\ data' = [data EXCEPT !.RelRoot = Rel(SplitDir(outpath), conf.DestinationPath)]
    /\ pc' = "makehtml"
    /\ UNCHANGED <<conf, tree, mdfiles, sidecars, pagesmd, idx, fname,
                   outpath, pagemd, doc, p, posts, htmlData, written,
                   postsBody, postsErr, err, out>>

\* os.MkdirAll(outpathpar) fails.
MakeDirFail ==
    /\ pc = "mkdir"
    /\ SplitDir(outpath) # conf.DestinationPath
    /\ Fail("creating path")
    /\ UNCHANGED <<conf, tree, mdfiles, sidecars, pagesmd, idx, fname,
                   outpath, pagemd, doc, p, posts, data, htmlData, written,
                   postsBody, postsErr, out>>

\* makeHTML(data, templateFile) succeeds.
MakeHTML ==
    /\ pc = "makehtml"
    /\ htmlData' = makeHTML(data)
    /\ pc' = "write"
    /\ UNCHANGED <<conf, tree, mdfiles, sidecars, pagesmd, idx, fname,
                   outpath, pagemd, doc, p, posts, data, written, postsBody,
                   postsErr, err, out>>

\* The template cannot be read, parsed or executed.
MakeHTMLFail ==
    /\ pc = "makehtml"
    /\ Fail("making HTML")
    /\ UNCHANGED <<conf, tree, mdfiles, sidecars, pagesmd, idx, fname,
                   outpath, pagemd, doc, p, posts, data, htmlData, written,
                   postsBody, postsErr, out>>

\* os.WriteFile(outpath, htmlData) succeeds; the loop goes on.
WriteFile ==
    /\ pc = "write"
    /\ written' = Append(written, [path |-> outpath, html |-> htmlData])
    /\ idx' = idx + 1
    /\ pc' = "loop"
    /\ UNCHANGED <<conf, tree, mdfiles, sidecars, pagesmd, fname, outpath,
                   pagemd, doc, p, posts, data, htmlData, postsBody, postsErr,
                   err, out>>

WriteFileFail ==
    /\ pc = "write"
    /\ Fail("writing html file")
    /\ UNCHANGED <<conf, tree, mdfiles, sidecars, pagesmd, idx, fname,
                   outpath, pagemd, doc, p, posts, data, htmlData, written,
                   postsBody, postsErr, out>>

\* The loop is over: renderPostsPage(posts, data, ...) is called.  data is
\* passed by value, so the Body set for the listing is the callee's.
PostsPageNone ==
    /\ pc = "loop"
    /\ idx = Len(pagesmd)
    /\ ~HasPosts(posts)
    /\ postsErr' = "nil"
    /\ pc' = "complete"
    /\ UNCHANGED <<conf, tree, mdfiles, sidecars, pagesmd, idx, fname,
                   outpath, pagemd, doc, p, posts, data, htmlData, written,
                   postsBody, err, out>>

\* len(posts) > 0: bodystr is built, parsed and rendered, makeHTML succeeds.
PostsPageMake ==
    /\ pc = "loop"
    /\ idx = Len(pagesmd)
    /\ HasPosts(posts)
    /\ postsBody' = bodystrOf(posts)
    /\ htmlData' = makeHTML([data EXCEPT !.Body = RenderListing(bodystrOf(posts))])
    /\ pc' = "postswrite"
    /\ UNCHANGED <<conf, tree, mdfiles, sidecars, pagesmd, idx, fname,
                   outpath, pagemd, doc, p, posts, data, written, postsErr,
                   err, out>>

\* makeHTML fails in renderPostsPage, which returns the error.
PostsPageMakeFail ==
    /\ pc = "loop"
    /\ idx = Len(pagesmd)
    /\ HasPosts(posts)
    /\ postsBody' = bodystrOf(posts)
    /\ postsErr' = "making html for posts page"
    /\ pc' = "complete"
    /\ UNCHANGED <<conf, tree, mdfiles, sidecars, pagesmd, idx, fname,
                   outpath, pagemd, doc, p, posts, data, htmlData, written,
                   err, out>>

\* os.WriteFile of posts.html succeeds.
PostsPageWrite ==
    /\ pc = "postswrite"
    /\ written' = Append(written,
                         [path |-> Join(conf.DestinationPath, <<"posts", ".", "html">>),
                          html |-> htmlData])
    /\ postsErr' = "nil"
    /\ pc' = "complete"
    /\ UNCHANGED <<conf, tree, mdfiles, sidecars, pagesmd, idx, fname,
                   outpath, pagemd, doc, p, posts, data, htmlData, postsBody,
                   err, out>>

\* os.WriteFile of posts.html fails, renderPostsPage returns the error.
PostsPageWriteFail ==
    /\ pc = "postswrite"
    /\ postsErr' = "writing posts page"
    /\ pc' = "complete"
    /\ UNCHANGED <<conf, tree, mdfiles, sidecars, pagesmd, idx, fname,
                   outpath, pagemd, doc, p, posts, data, htmlData, written,
                   postsBody, err, out>>

\* renderPages after the call of renderPostsPage, whose result it does not
\* read: it prints ":: Rendering complete!" and returns nil.
Complete ==
    /\ pc = "complete"
    /\ out' = Append(out, "Rendering complete")
    /\ err' = "nil"
    /\ pc' = "returned"
    /\ UNCHANGED <<conf, tree, mdfiles, sidecars, pagesmd, idx, fname,
                   outpath, pagemd, doc, p, posts, data, htmlData, written,
                   postsBody, postsErr>>

\* main: renderPages returned an error, die prints it and exits with 1.
Die ==
    /\ pc = "returned"
    /\ err # "nil"
    /\ out' = Append(out, "error")
    /\ pc' = "exit1"
    /\ UNCHANGED <<conf, tree, mdfiles, sidecars, pagesmd, idx, fname,
                   outpath, pagemd, doc, p, posts, data, htmlData, written,
                   postsBody, postsErr, err>>

\* main: renderPages returned nil, the resources are copied.
CopyResources ==
    /\ pc = "returned"
    /\ err = "nil"
    /\ out' = Append(out, "Copying resources")
    /\ pc' = "exit0"
    /\ UNCHANGED <<conf, tree, mdfiles, sidecars, pagesmd, idx, fname,
                   outpath, pagemd, doc, p, posts, data, htmlData, written,
                   postsBody, postsErr, err>>

Next ==
    \/ Collect
    \/ CollectFail
    \/ ReadFile
    \/ ReadFileFail
    \/ ClassifyPost
    \/ ClassifyPage
    \/ MetadataAbsent
    \/ MetadataRead
    \/ MetadataFail
    \/ AddDate
    \/ AddDatePanic
    \/ RenderBody
    \/ MakeDir
    \/ MakeDirFail
    \/ MakeHTML
    \/ MakeHTMLFail
    \/ WriteFile
    \/ WriteFileFail
    \/ PostsPageNone
    \/ PostsPageMake
    \/ PostsPageMakeFail
    \/ PostsPageWrite
    \/ PostsPageWriteFail
    \/ Complete
    \/ Die
    \/ CopyResources

Spec == Init /\ [][Next]_vars

(***************************************************************************)
(* Vocabulary of the properties                                            *)
(***************************************************************************)
\* The nodes of a tree in document order (pre-order, depth first).
RECURSIVE PreOrder(_)
PreOrder(node) ==
    LET RECURSIVE below(_)
        below(i) ==
            IF i > Len(node.children) THEN <<>>
            ELSE PreOrder(node.children[i]) \o below(i + 1)
    IN  <<node>> \o below(1)

\* The literal text of a node: the literals of the leaves below it, in
\* document order, without separators.
LiteralText(node) ==
    LET below == Tail(PreOrder(node))
        RECURSIVE cat(_)
        cat(i) == IF i > Len(below) THEN "" ELSE below[i].literal \o cat(i + 1)
    IN  cat(1)

\* The position in document order of the first paragraph, 0 without one.
FirstParagraphAt(t) ==
    LET nodes == PreOrder(t)
        at    == {i \in 1..Len(nodes) : nodes[i].type = "Paragraph"}
    IN  IF at = {} THEN 0 ELSE CHOOSE i \in at : \A j \in at : i <= j

\* The nodes the walk encounters: those up to the first paragraph.
Encountered(t) ==
    IF FirstParagraphAt(t) = 0 THEN PreOrder(t)
    ELSE SubSeq(PreOrder(t), 1, FirstParagraphAt(t))

FirstParagraphText(t) ==
    IF FirstParagraphAt(t) = 0 THEN "" ELSE LiteralText(PreOrder(t)[FirstParagraphAt(t)])

\* The literal text of the first level-1 heading the walk encounters, ""
\* without one.
FirstHeadingText(t) ==
    LET nodes == Encountered(t)
        at    == {i \in 1..Len(nodes) : nodes[i].type = "Heading" /\ nodes[i].level = 1}
    IN  IF at = {} THEN ""
        ELSE LiteralText(nodes[CHOOSE i \in at : \A j \in at : i <= j])

\* The source path of file i relative to the source root, without ".md".
RelName(i) == SubSeq(tree[i], 1, Len(tree[i]) - 2)

\* File i is a post: its full source path holds a dated name.
IsPostFile(i) == {j \in 1..Len(pagesmd[i]) : pagesmd[i][j] \in DatedNames} # {}

Printed(line) == \E i \in 1..Len(out) : out[i] = line

PostsPagePath == Join(conf.DestinationPath, <<"posts", ".", "html">>)

\* posts.html has been written by the listing step.
PostsPageWritten ==
    \E i \in 1..Len(written) : i > idx /\ written[i].path = PostsPagePath

\* The date footer of a sidecar date, as text and as HTML.
DateText ==
    [ zero   |-> "Mon, 01 Jan 0001 00:00:00 UTC",
      utc    |-> "Sun, 01 Jan 2023 10:30:05 UTC",
      offset |-> "Thu, 14 Dec 2023 23:09:00 +0200" ]

FooterHTML(date) == "<hr>\n<p>Posted: " \o DateText[date] \o "</p>\n"

(***************************************************************************)
(* C1                                                                      *)
(***************************************************************************)
\* C1: a post source file without a sidecar metadata file is processed
\* normally: the run does not stop in it, its Post Record has no metadata
\* and is listed, and its page is written without the date footer.
C1_MissingMetadataIsProcessed ==
    /\ pc = "panic" => ~(IsPostFile(idx + 1) /\ sidecars[idx + 1] = "absent")
    /\ \A i \in 1..idx :
          IsPostFile(i) /\ sidecars[i] = "absent" =>
             /\ written[i].html.Body = Render(parseMD(mdfiles[i]))
             /\ \E k \in 1..Len(posts) : posts[k].metadata = nil

(***************************************************************************)
(* C2                                                                      *)
(***************************************************************************)
\* A step of the render pipeline has failed.
StepFailed == err # "nil" \/ postsErr # "nil"

\* C2: once a step of the render pipeline has failed, the loop is left and
\* no page is made or written any more, renderPages returns an error, and
\* the run neither reports "Rendering complete" nor goes on to copy the
\* resources.
C2_FailureAbortsRun ==
    StepFailed =>
        /\ pc \in {"complete", "returned", "exit0", "exit1"}
        /\ ~Printed("Rendering complete")
        /\ ~Printed("Copying resources")
        /\ pc \in {"returned", "exit0", "exit1"} => err # "nil"

(***************************************************************************)
(* C3                                                                      *)
(***************************************************************************)
\* renderPostsPage has returned.
AfterPostsPage == pc = "complete" \/ (pc \in {"returned", "exit0"} /\ err = "nil")

ListingEntry(i, post) ==
    ToString(i) \o ". [" \o post.title \o "](" \o Str(post.url) \o ")\n    - "
    \o post.summary \o "\n"

\* The entries of ps, the first of them at index i, in order.
RECURSIVE ListingFrom(_, _)
ListingFrom(ps, i) ==
    IF ps = <<>> THEN "" ELSE ListingEntry(i, Head(ps)) \o ListingFrom(Tail(ps), i + 1)

\* C4: the synthesized listing body is the concatenation, in collection
\* order, of one entry "<i>. [<title>](<url>)\n    - <summary>\n" per post,
\* i its zero-based index.
C4_ListingBody ==
    pc = "postswrite" =>
        /\ postsBody = ListingFrom(posts, 0)
        /\ htmlData.Body = RenderListing(ListingFrom(posts, 0))
        /\ Len(posts) = 1 =>
              postsBody = "0. [" \o posts[1].title \o "](" \o Str(posts[1].url)
                          \o ")\n    - " \o posts[1].summary \o "\n"

\* The listing of two posts has been synthesized.
C4_Witness == pc = "postswrite" /\ Len(posts) = 2 /\ postsBody # ""

(***************************************************************************)
(* C5                                                                      *)
(***************************************************************************)
\* The footer has just been appended to the tree of the post in hand.
FooterAppended == pc = "render" /\ MatchString(fname)

\* C5: addDate adds exactly two top-level children to the tree: the
\* children it had keep their content and order, the second to last child
\* is a horizontal rule, and the last one is a paragraph whose only child
\* is a text leaf holding "Posted: " and the RFC 1123 form of the date.
C5_FooterShape ==
    FooterAppended =>
        LET before == parseMD(pagemd).children
            after  == doc.children
            n      == Len(before)
        IN  /\ Len(after) = n + 2
            /\ SubSeq(after, 1, n) = before
            /\ after[n + 1].type = "HorizontalRule"
            /\ after[n + 1].children = <<>>
            /\ after[n + 2].type = "Paragraph"
            /\ Len(after[n + 2].children) = 1
            /\ after[n + 2].children[1].type = "Text"
            /\ after[n + 2].children[1].literal = "Posted: " \o DateText[sidecars[idx + 1]]

\* The footer has been appended to a tree that had top-level children, for
\* a date in a zone without an abbreviation.
C5_Witness ==
    FooterAppended /\ Len(doc.children) = 6 /\ sidecars[idx + 1] = "offset"

(***************************************************************************)
(* C6                                                                      *)
(***************************************************************************)
\* C6: the extracted title is the literal text of the first level-1
\* heading the walk encounters, whatever that text is; later level-1
\* headings never replace it; without a level-1 heading it is "".
C6_TitleIsFirstHeading ==
    pc = "metadata" => p.title = FirstHeadingText(parseMD(pagemd))

(***************************************************************************)
(* C7                                                                      *)
(***************************************************************************)
\* C7: the extracted summary is the literal text of the first paragraph in
\* document order, "" without a paragraph; the walk halts there, so the
\* title is "" or the text of a level-1 heading encountered up to that
\* paragraph, and the part of the tree after it changes neither.
C7_SummaryIsFirstParagraph ==
    pc = "metadata" =>
        LET t     == parseMD(pagemd)
            nodes == Encountered(t)
        IN  /\ p.summary = FirstParagraphText(t)
            /\ \/ p.title = ""
               \/ \E i \in 1..Len(nodes) :
                     /\ nodes[i].type = "Heading"
                     /\ nodes[i].level = 1
                     /\ p.title = LiteralText(nodes[i])

\* A post whose first paragraph holds nested text and is followed by
\* another paragraph has been inspected.
C7_Witness == pc = "metadata" /\ pagemd = 4 /\ p.summary = "a b c"

(***************************************************************************)
(* C8                                                                      *)
(***************************************************************************)
\* C8: the destination path of the file S/<rel>.md is D/<rel>.html, and
\* the URL of a post is <rel>.html, without the destination root and
\* without a leading separator.
C8_PathDerivation ==
    /\ pc \in {"classify", "metadata"} =>
          outpath = Join(conf.DestinationPath, RelName(idx + 1) \o <<".", "html">>)
    /\ pc = "metadata" => p.url = RelName(idx + 1) \o <<".", "html">>

(***************************************************************************)
(* C9                                                                      *)
(***************************************************************************)
\* What parsePost returns for each Markdown source of the model.
ParsedPost == [md \in Sources |-> parsePost(md)]

\* The URL renderPages gives the post at rel below the source root, for
\* each configuration.
PostURL ==
    [c \in Configs |->
        [r \in {RelFiles[i] : i \in 1..Len(RelFiles)} |->
            postURLOf(outpathOf(Join(c.SourcePath, r), c.SourcePath, c.DestinationPath),
                      c.DestinationPath)]]

\* The Post Record of file i.
PostRecord(i) ==
    [ title    |-> ParsedPost[mdfiles[i]].title,
      summary  |-> ParsedPost[mdfiles[i]].summary,
      url      |-> PostURL[conf][tree[i]],
      metadata |-> IF sidecars[i] = "absent" THEN nil
                   ELSE <<[DatePosted |-> DateOf[sidecars[i]]]>> ]

\* The Post Records of the posts among the first k files, in discovery order.
RECURSIVE PostRecords(_)
PostRecords(k) ==
    IF k = 0 THEN <<>>
    ELSE PostRecords(k - 1) \o (IF IsPostFile(k) THEN <<PostRecord(k)>> ELSE <<>>)

\* C9: after the first k files have been processed the post collection is
\* the sequence of the Post Records of the posts among them, in discovery
\* order; while file k + 1 is processed it is that sequence until the
\* record of the file is appended, and the sequence for k + 1 files from
\* then on, so it only grows by appending and a file that is no post adds
\* nothing.
C9_PostCollection ==
    CASE pc \in {"collect", "loop", "classify", "metadata"} ->
            posts = PostRecords(idx)
      [] pc \in {"adddate", "render", "mkdir", "makehtml", "write"} ->
            /\ posts = PostRecords(idx + 1)
            /\ ~MatchString(fname) => posts = PostRecords(idx)
      [] pc \in {"postswrite", "complete"} ->
            posts = PostRecords(Len(pagesmd))
      [] OTHER ->
            \/ posts = PostRecords(idx)
            \/ idx < Len(pagesmd) /\ posts = PostRecords(idx + 1)

\* At the end of the loop the collection holds the two posts of a tree
\* whose sources differ.
C9_Witness ==
    /\ pc = "loop"
    /\ idx = Len(pagesmd)
    /\ Len(posts) = 2
    /\ mdfiles[1] # mdfiles[2]

(***************************************************************************)
(* C10                                                                     *)
(***************************************************************************)
\* File i is a post with a decoded sidecar.
IsDatedPost(i) == IsPostFile(i) /\ sidecars[i] \in DOMAIN DateOf

\* The HTML of file i: its tree rendered, then the footer of its date.
PageWithFooter(i) == Render(parseMD(mdfiles[i])) \o FooterHTML(sidecars[i])

\* C10: for a post with metadata the body rendered, made into the page and
\* written holds the date footer after the rendering of the tree as it was
\* parsed, while the title and the summary of its Post Record are those of
\* the tree as parsed: the footer paragraph is never the summary, which is
\* "" for a post without a paragraph.
C10_FooterAfterInspection ==
    /\ pc \in {"mkdir", "makehtml", "write"} /\ IsDatedPost(idx + 1) =>
          /\ data.Body = PageWithFooter(idx + 1)
          /\ pc = "write" => htmlData.Body = PageWithFooter(idx + 1)
          /\ Last(posts).title = p.title
          /\ Last(posts).summary = FirstParagraphText(parseMD(pagemd))
          /\ Last(posts).summary = Walk(parseMD(pagemd),
                                        [p |-> NoPost, status |-> "GoToNext"]).p.summary
          /\ Last(posts).title = Walk(parseMD(pagemd),
                                      [p |-> NoPost, status |-> "GoToNext"]).p.title
          /\ FirstParagraphAt(parseMD(pagemd)) = 0 => Last(posts).summary = ""
    /\ \A i \in 1..idx : IsDatedPost(i) => written[i].html.Body = PageWithFooter(i)

\* A post with metadata and without a paragraph has been rendered and made
\* into a page.
C10_Witness ==
    /\ pc = "write"
    /\ IsDatedPost(idx + 1)
    /\ pagemd = 6
    /\ Last(posts).summary = ""

(***************************************************************************)
(* C11                                                                     *)
(***************************************************************************)
\* The number of directories between the destination root and a page
\* written below it.
DirsBelowRoot(path) ==
    LET below == TrimPrefix(Clean(path), Clean(conf.DestinationPath))
    IN  Cardinality({i \in 1..Len(below) : below[i] = "/"}) - 1

\* The path from a directory n levels below the destination root back to it.
RECURSIVE UpToRoot(_)
UpToRoot(n) ==
    IF n = 0 THEN <<".">>
    ELSE IF n = 1 THEN <<".", ".">>
    ELSE UpToRoot(n - 1) \o <<"/", ".", ".">>

\* C11: every page written, the posts.html listing page included, is
\* rendered with the relative path from its own parent directory back to
\* the destination root as its relative-root; for posts.html that is ".",
\* however deep the last source file processed lies.
C11_RelRootOfEveryPage ==
    \A i \in 1..Len(written) :
        /\ written[i].html.RelRoot = UpToRoot(DirsBelowRoot(written[i].path))
        /\ written[i].path = PostsPagePath /\ i > idx =>
              written[i].html.RelRoot = <<".">>

====
